---- MODULE Spec2Model ----
(***************************************************************************)
(* A model of the asynchronous operations of langchainjs's runnables:      *)
(*   - Runnable.batch / Runnable._getOptionsList   (schema/runnable.ts)    *)
(*   - BaseChatModel.generate / _streamIterator    (chat_models/base.ts)   *)
(* Each asynchronous function is cut at its awaits: one action runs the    *)
(* code from one suspension point to the next, and the settling of every   *)
(* promise the code awaits (an invoke, a generation primitive, a callback  *)
(* notification, the chunk producer) is an action of the environment.      *)
(***************************************************************************)
EXTENDS Integers, Sequences, FiniteSets, TLC

\* ------------------------------------------------------------------ bounds
MaxInputs == 4
MaxLists == 3
MaxChunks == 3
MaxVectors == 2
MaxK == 2

\* ------------------------------------------------------------- value sets
MsgLists == {"m1", "m2"}
ChunkTexts == {"x", "y"}
ReplyTexts == {"r1", "r2"}
\* An options object: the one passed for the input at a position, the one
\* shared by all inputs, or the empty object of `options ?? {}`
Option(kind, k) == [kind |-> kind, id |-> k]
EmptyOptions == Option("empty", 0)
SharedOptions == Option("shared", 0)

\* An array of n inputs, and an array of n options.  batch looks into
\* neither, so the elements are told apart by their position alone.
InputArray(n) == [k \in 1..n |-> [input |-> k]]
OptionArray(n) == [k \in 1..n |-> Option("item", k)]

SeqsUpTo(S, n) == UNION {[1..k -> S] : k \in 0..n}

Min(x, y) == IF x < y THEN x ELSE y

VARIABLES
    \* Runnable.batch
    b_pc,           \* "idle" | "await" (line 49) | "done" | "failed"
    b_inputs,       \* inputs
    b_options,      \* the options argument
    b_maxConc,      \* batchOptions?.maxConcurrency
    b_configList,   \* configList
    b_batchSize,    \* batchSize
    b_i,            \* the loop variable i of line 45
    b_calls,        \* every call of this.invoke so far, in call order
    b_promises,     \* batchPromises: the calls of the window being awaited
    b_firstRej,     \* the call whose rejection settled Promise.all, 0 if none
    b_batchResults, \* batchResults
    b_out,          \* the value batch returned
    b_error,        \* the error batch failed with
    b_outOfOrder    \* whether some invoke settled before one called earlier

batchVars == <<b_pc, b_inputs, b_options, b_maxConc, b_configList, b_batchSize,
               b_i, b_calls, b_promises, b_firstRej, b_batchResults, b_out,
               b_error, b_outOfOrder>>

VARIABLES
    \* the callback manager and its run managers
    cb_events,      \* the notifications issued so far, in the order issued
    cb_pending,     \* the end and error notifications issued and not completed

    \* BaseChatModel.generate
    g_pc,           \* "idle" | "start" (line 204) | "settle" (line 212)
                    \* | "notify" (line 224) | "returned" | "failed"
    g_messages,     \* messages
    g_options,      \* parsedOptions
    g_runManagers,  \* runManagers: the run id of each handle
    g_prim,         \* the calls of this._generate, one per message list
    g_notified,     \* per message list, its end or error notification (an
                    \* index of cb_events), 0 before line 224
    g_firstRej,     \* the list whose branch rejected Promise.all first, or 0
    g_generations,  \* generations
    g_llmOutputs,   \* llmOutputs
    g_output,       \* the LLMResult generate returned
    g_error,        \* the error generate failed with
    g_outOfOrder,   \* whether a primitive settled before one of an earlier list

    \* BaseChatModel._streamIterator and its consumer
    s_pc,           \* "idle" | "created" | "invoke" (line 114) | "start" (line
                    \* 135) | "request" (line 144) | "yielded" (line 149 or
                    \* 114) | "error" (line 157) | "end" (line 164) | "done"
                    \* | "raised" | "closed"
    s_override,     \* whether the subclass overrides _streamResponseChunks
    s_input,        \* input
    s_options,      \* options
    s_callOptions,  \* callOptions (line 118)
    s_producerOptions, \* the options _streamResponseChunks was called with
    s_runManagers,  \* runManagers
    s_notified,     \* the notifications awaited at line 157 or line 164
    s_chunk,        \* chunk, the loop variable of line 144
    s_generationChunk, \* generationChunk
    s_produced,     \* the chunks the producer emitted so far
    s_delivered,    \* the values the generator yielded to its consumer
    s_invokes,      \* the number of calls of this.invoke made by the generator
    s_error,        \* the error the generator raised to its consumer
    s_trace         \* the steps of the generator, in order

cbVars == <<cb_events, cb_pending>>

genVars == <<g_pc, g_messages, g_options, g_runManagers, g_prim, g_notified, g_firstRej,
             g_generations, g_llmOutputs, g_output, g_error, g_outOfOrder>>

streamVars == <<s_pc, s_override, s_input, s_options, s_callOptions,
                   s_producerOptions, s_runManagers, s_notified, s_chunk,
                s_generationChunk, s_produced, s_delivered, s_invokes, s_error,
                s_trace>>

VARIABLES
    \* MongoDBAtlasVectorSearch
    v_textKey,      \* this.textKey
    v_embeddingKey, \* this.embeddingKey
    v_indexName,    \* this.indexName
    v_pc,           \* "idle" | "inserting" (line 47) | "aggregating" (line
                    \* 99) | "done" | "failed"
    v_op,           \* the method called: "addVectors" or "search"
    v_vectors,      \* vectors
    v_documents,    \* documents
    v_inserts,      \* the arguments of the calls of collection.insertMany
    v_stored,       \* the records of the collection
    v_query,        \* query
    v_k,            \* k
    v_filter,       \* filter
    v_pipeline,     \* pipeline, as passed to collection.aggregate
    v_ret,          \* ret, as returned
    v_error         \* the error the method failed with

vecVars == <<v_textKey, v_embeddingKey, v_indexName, v_pc, v_op, v_vectors,
             v_documents, v_inserts, v_stored, v_query, v_k, v_filter,
             v_pipeline, v_ret, v_error>>

vars == <<batchVars, cbVars, genVars, streamVars, vecVars>>

\* ------------------------------------------------------------ Runnable
NoError == [kind |-> "none", call |-> 0]
MismatchError == [kind |-> "options-length-mismatch", call |-> 0]
InvokeError(k) == [kind |-> "invoke-failed", call |-> k]

\* The options argument of batch: absent, one object, or an array.
OptionArgs ==
    {[kind |-> "absent", one |-> EmptyOptions, arr |-> <<>>]}
    \cup {[kind |-> "one", one |-> SharedOptions, arr |-> <<>>]}
    \cup {[kind |-> "array", one |-> EmptyOptions, arr |-> OptionArray(n)] :
            n \in 0..MaxInputs}

\* batchOptions?.maxConcurrency: absent, or a number
MaxConcArgs ==
    {[present |-> FALSE, val |-> 0]}
    \cup {[present |-> TRUE, val |-> m] : m \in -1..MaxInputs}

\* A variant that rejects only an array shorter than the inputs.
_getOptionsList_shortOnly(options, length) ==
    IF options.kind = "array"
    THEN IF Len(options.arr) < length
         THEN [ok |-> FALSE, list |-> <<>>]
         ELSE [ok |-> TRUE, list |-> options.arr]
    ELSE [ok |-> TRUE, list |-> [k \in 1..length |-> options.one]]

\* _getOptionsList(options, length): throws when an array of another length
\* is passed; an array is returned as it is; one object is repeated.
_getOptionsList(options, length) ==
    IF options.kind = "array"
    THEN IF Len(options.arr) # length
         THEN [ok |-> FALSE, list |-> <<>>]
         ELSE [ok |-> TRUE, list |-> options.arr]
    ELSE [ok |-> TRUE, list |-> [k \in 1..length |-> options.one]]

\* A variant that takes all inputs as one window whatever maxConcurrency is.
BatchSizeOf_oneWindow(mc, n) == n

\* lines 40-43
BatchSizeOf(mc, n) ==
    IF mc.present /\ mc.val # 0 /\ mc.val > 0 THEN mc.val ELSE n

\* A variant slicing as inputs.slice(i, batchSize).
SliceIndices_noOffset(i, size, n) == i .. (Min(size, n) - 1)

\* inputs.slice(i, i + batchSize): the 0-based positions it holds
SliceIndices(i, size, n) == i .. (Min(i + size, n) - 1)

\* line 48: `.map((input, i) => this.invoke(input, configList[i]))`; the
\* callback's i is the position j in the slice, not in inputs.
WindowOptions(configList, i, j) == configList[j + 1]

\* The calls of this.invoke made for the window starting at i (lines 46-48),
\* in call order; `index` is the position in inputs the input was taken from.
WindowCalls(inputs, configList, i, size) ==
    LET idx == SliceIndices(i, size, Len(inputs))
        w == Cardinality(idx)
    IN [j \in 1..w |->
          [index |-> i + (j - 1),
           input |-> inputs[i + j],
           options |-> WindowOptions(configList, i, j - 1),
           status |-> "pending"]]

\* The value an invoke resolves with: it names the call that produced it.
ResultOf(k, call) == [call |-> k, input |-> call.input, options |-> call.options]

\* batchResults.flat()
RECURSIVE Flat(_)
Flat(ss) == IF ss = <<>> THEN <<>> ELSE Head(ss) \o Flat(Tail(ss))

\* The for loop of lines 45-51 entered (or re-entered) with loop variable i:
\* either the next window's invokes are called and batch suspends at the
\* await, or the loop is over and batch returns.
LoopFrom(i, inputs, configList, size, results) ==
    IF i < Len(inputs)
    THEN LET new == WindowCalls(inputs, configList, i, size)
         IN /\ b_calls' = b_calls \o new
            /\ b_promises' = [j \in 1..Len(new) |-> Len(b_calls) + j]
            /\ b_pc' = "await"
            /\ b_out' = b_out
    ELSE /\ b_calls' = b_calls
         /\ b_promises' = <<>>
         /\ b_pc' = "done"
         /\ b_out' = Flat(results)

\* batch(inputs, options, batchOptions) up to its first await
Batch(inputs, options, mc) ==
    /\ b_pc = "idle"
    /\ b_inputs' = inputs
    /\ b_outOfOrder' = b_outOfOrder
    /\ b_options' = options
    /\ b_maxConc' = mc
    /\ LET cl == _getOptionsList(options, Len(inputs))
           size == BatchSizeOf(mc, Len(inputs))
       IN IF ~cl.ok
          THEN /\ b_pc' = "failed"
               /\ b_error' = MismatchError
               /\ UNCHANGED <<b_configList, b_batchSize, b_i, b_calls,
                              b_promises, b_firstRej, b_batchResults, b_out>>
          ELSE /\ b_configList' = cl.list
               /\ b_batchSize' = size
               /\ b_i' = 0
               /\ b_batchResults' = <<>>
               /\ LoopFrom(0, inputs, cl.list, size, <<>>)
               /\ UNCHANGED <<b_firstRej, b_error>>

BatchCall ==
    /\ b_pc = "idle"
    /\ \E n \in 0..MaxInputs, options \in OptionArgs, mc \in MaxConcArgs :
           Batch(InputArray(n), options, mc)
    /\ UNCHANGED <<vecVars, cbVars, genVars, streamVars>>

\* One invoke settles: it resolves, or it rejects.  The first rejection among
\* the promises being awaited settles Promise.all (line 49).
InvokeSettles(k, ok) ==
    /\ k \in 1..Len(b_calls)
    /\ b_calls[k].status = "pending"
    /\ b_calls' = [b_calls EXCEPT ![k].status = IF ok THEN "ok" ELSE "err"]
    /\ b_firstRej' = IF ~ok /\ b_firstRej = 0 /\ b_pc = "await"
                        /\ \E j \in 1..Len(b_promises) : b_promises[j] = k
                     THEN k ELSE b_firstRej
    /\ b_outOfOrder' = (b_outOfOrder \/
                           \E j \in 1..(k - 1) : b_calls[j].status = "pending")
    /\ UNCHANGED <<b_pc, b_inputs, b_options, b_maxConc, b_configList,
                   b_batchSize, b_i, b_promises, b_batchResults, b_out, b_error>>
    /\ UNCHANGED <<vecVars, cbVars, genVars, streamVars>>

InvokeResolves == \E k \in 1..Len(b_calls) : InvokeSettles(k, TRUE)
InvokeRejects == \E k \in 1..Len(b_calls) : InvokeSettles(k, FALSE)

\* A variant awaiting the window with Promise.allSettled: it goes on to the
\* next window once every invoke of the window settled, whatever the outcome.
WindowResolved_allSettled ==
    /\ b_pc = "await"
    /\ \A j \in 1..Len(b_promises) : b_calls[b_promises[j]].status # "pending"
    /\ LET batchResult == [j \in 1..Len(b_promises) |->
                              ResultOf(b_promises[j], b_calls[b_promises[j]])]
           results == Append(b_batchResults, batchResult)
           i == b_i + b_batchSize
       IN /\ b_batchResults' = results
          /\ b_i' = i
          /\ LoopFrom(i, b_inputs, b_configList, b_batchSize, results)
    /\ UNCHANGED <<b_inputs, b_options, b_maxConc, b_configList, b_batchSize,
                   b_firstRej, b_error, b_outOfOrder>>
    /\ UNCHANGED <<vecVars, cbVars, genVars, streamVars>>

\* line 49 resumes with the window's results, line 50 pushes them, and the
\* loop goes on (i += batchSize)
WindowResolved ==
    /\ b_pc = "await"
    /\ \A j \in 1..Len(b_promises) : b_calls[b_promises[j]].status = "ok"
    /\ LET batchResult == [j \in 1..Len(b_promises) |->
                              ResultOf(b_promises[j], b_calls[b_promises[j]])]
           results == Append(b_batchResults, batchResult)
           i == b_i + b_batchSize
       IN /\ b_batchResults' = results
          /\ b_i' = i
          /\ LoopFrom(i, b_inputs, b_configList, b_batchSize, results)
    /\ UNCHANGED <<b_inputs, b_options, b_maxConc, b_configList, b_batchSize,
                   b_firstRej, b_error, b_outOfOrder>>
    /\ UNCHANGED <<vecVars, cbVars, genVars, streamVars>>

\* line 49 throws: Promise.all rejected with the first rejection, and batch
\* fails with it
WindowRejected ==
    /\ b_pc = "await"
    /\ b_firstRej # 0
    /\ b_pc' = "failed"
    /\ b_error' = InvokeError(b_firstRej)
    /\ UNCHANGED <<b_inputs, b_options, b_maxConc, b_configList, b_batchSize,
                   b_i, b_calls, b_promises, b_firstRej, b_batchResults, b_out,
                   b_outOfOrder>>
    /\ UNCHANGED <<vecVars, cbVars, genVars, streamVars>>

\* ---------------------------------------------------- callback manager
NoReason == [kind |-> "none", list |-> 0]
GenerateError(i) == [kind |-> "generate-failed", list |-> i]
ProducerError == [kind |-> "producer-failed", list |-> 0]
NoLLMOutput == [tokens |-> "none"]

\* A ChatGeneration (or ChatGenerationChunk): its text and its message
Generation(text) ==
    [defined |-> TRUE, text |-> text, message |-> [content |-> text]]
\* `undefined` where a generation is expected
UndefinedGeneration ==
    [defined |-> FALSE, text |-> <<>>, message |-> [content |-> <<>>]]

\* One notification received by the callback manager or by a run manager.
Event(kind, run, messages, generations, llmOutput, reason) ==
    [kind |-> kind, run |-> run, messages |-> messages,
     generations |-> generations, llmOutput |-> llmOutput, reason |-> reason]

RunsStarted(events) ==
    Cardinality({e \in 1..Len(events) : events[e].kind = "start"})

\* callbackManager.handleChatModelStart(llm, messages, ...): every message
\* list starts a run, and the call resolves with one handle per run.
HandleChatModelStart(events, messages) ==
    LET base == RunsStarted(events)
    IN [runManagers |-> [i \in 1..Len(messages) |-> base + i],
        events |-> events \o
            [i \in 1..Len(messages) |->
                Event("start", base + i, messages[i], <<>>, NoLLMOutput,
                      NoReason)]]

\* runManager.handleLLMEnd({generations, llmOutput})
HandleLLMEnd(run, generations, llmOutput) ==
    Event("end", run, "", generations, llmOutput, NoReason)

\* runManager.handleLLMError(err)
HandleLLMError(run, reason) ==
    Event("error", run, "", <<>>, NoLLMOutput, reason)

\* ------------------------------------------------------- call options
\* A CallOptions object.  A property that is not set is "absent"; timeout
\* is set when hasTimeout, promptIndex is -1 when not set.
CallOptions(callbacks, hasTimeout, timeout, signal) ==
    [callbacks |-> callbacks, tags |-> "absent", metadata |-> "absent",
     hasTimeout |-> hasTimeout, timeout |-> timeout, signal |-> signal,
     stop |-> <<>>, promptIndex |-> -1]

\* `{}`
EmptyCallOptions == CallOptions("absent", FALSE, 0, "absent")

\* The options objects a caller passes
CallOptionsObjects ==
    {CallOptions("handlers", t[1], t[2], sig) :
        t \in {<<FALSE, 0>>, <<TRUE, 0>>, <<TRUE, 1000>>},
        sig \in {"absent", "caller"}}

NoStops == <<>>
\* The options argument of generate: absent, a list of stop sequences, or
\* an options object
GenerateOptionArgs ==
    {[kind |-> "absent", stops |-> NoStops, object |-> EmptyCallOptions]}
    \cup {[kind |-> "stops", stops |-> <<"stop">>, object |-> EmptyCallOptions]}
    \cup {[kind |-> "object", stops |-> NoStops, object |-> o] :
            o \in CallOptionsObjects}

\* The options argument of stream and invoke: absent or an options object
StreamOptionArgs == {a \in GenerateOptionArgs : a.kind # "stops"}

\* generate, lines 181-186: parsedOptions
ParseOptions(arg) ==
    IF arg.kind = "stops"
    THEN [EmptyCallOptions EXCEPT !.stop = arg.stops]
    ELSE IF arg.kind = "absent" THEN EmptyCallOptions ELSE arg.object

\* Runnable._separateRunnableConfigFromCallOptions: the run configuration,
\* and a copy of the options without it
RunnableSeparate(options) ==
    [runnableConfig |-> [callbacks |-> options.callbacks,
                         tags |-> options.tags,
                         metadata |-> options.metadata],
     callOptions |-> [options EXCEPT !.callbacks = "absent",
                                     !.tags = "absent",
                                     !.metadata = "absent"]]

\* BaseChatModel._separateRunnableConfigFromCallOptions: the copy gets a
\* signal made from the timeout when it has a (non-zero) timeout and no signal
_separateRunnableConfigFromCallOptions(options) ==
    LET sep == RunnableSeparate(options)
        co == sep.callOptions
    IN [runnableConfig |-> sep.runnableConfig,
        callOptions |->
            IF co.hasTimeout /\ co.timeout # 0 /\ co.signal = "absent"
            THEN [co EXCEPT !.signal = "timeout"]
            ELSE co]

\* ------------------------------------------------- BaseChatModel.generate
NoChatResult == [generations |-> <<>>, llmOutput |-> NoLLMOutput]

\* What a generation primitive resolves with: one generation and its output.
ChatResult(r) ==
    [generations |-> <<Generation(<<r>>)>>, llmOutput |-> [tokens |-> r]]

\* this._combineLLMOutput?.(...llmOutputs): left to the subclass
CombineLLMOutput(llmOutputs) == [defined |-> TRUE, combined |-> llmOutputs]
\* `undefined` as the llmOutput of a result
UndefinedLLMOutput == [defined |-> FALSE, combined |-> <<>>]

\* lines 213-218: the call of this._generate for message list i (from 1)
PrimCall(messageList, parsedOptions, i, runManagers) ==
    [messages |-> messageList,
     options |-> [parsedOptions EXCEPT !.promptIndex = i - 1],
     runManager |-> runManagers[i], status |-> "pending",
     value |-> NoChatResult, reason |-> NoReason]

\* A variant notifying every outcome on the first handle.
BranchNotification_firstHandle(p, runManagers, i) ==
    IF p.status = "fulfilled"
    THEN HandleLLMEnd(runManagers[1], <<p.value.generations>>,
                      p.value.llmOutput)
    ELSE HandleLLMError(runManagers[1], p.reason)

\* lines 225-238: the notification made for the settled primitive of list i
BranchNotification(p, runManagers, i) ==
    IF p.status = "fulfilled"
    THEN HandleLLMEnd(runManagers[i], <<p.value.generations>>,
                      p.value.llmOutput)
    ELSE HandleLLMError(runManagers[i], p.reason)

\* generate(messages, options, callbacks), lines 175-210, up to the await of
\* handleChatModelStart (the await of CallbackManager.configure before it
\* changes nothing that is modelled).  g_runManagers holds the value the
\* awaited promise resolves with.
Generate(messages, options) ==
    /\ g_pc = "idle"
    /\ g_messages' = messages
    /\ g_options' = ParseOptions(options)
    /\ LET started == HandleChatModelStart(cb_events, messages)
       IN /\ cb_events' = started.events
          /\ g_runManagers' = started.runManagers
    /\ g_pc' = "start"
    /\ UNCHANGED <<cb_pending, g_prim, g_notified, g_firstRej, g_generations,
                   g_llmOutputs, g_output, g_error,
                   g_outOfOrder>>

GenerateCall ==
    /\ g_pc = "idle"
    /\ \E messages \in SeqsUpTo(MsgLists, MaxLists),
          options \in GenerateOptionArgs : Generate(messages, options)
    /\ UNCHANGED <<vecVars, batchVars, streamVars>>

\* line 204 resumes; lines 212-219 call the primitive for every message list
ChatModelStartReturns ==
    /\ g_pc = "start"
    /\ g_prim' = [i \in 1..Len(g_messages) |->
                     PrimCall(g_messages[i], g_options, i, g_runManagers)]
    /\ g_pc' = "settle"
    /\ UNCHANGED <<cbVars, g_messages, g_options, g_runManagers, g_notified, g_firstRej,
                   g_generations, g_llmOutputs, g_output, g_error,
                   g_outOfOrder>>
    /\ UNCHANGED <<vecVars, batchVars, streamVars>>

\* The primitive of list i settles: it resolves with a result or it rejects.
PrimSettles(i, ok, r) ==
    /\ i \in 1..Len(g_prim)
    /\ g_prim[i].status = "pending"
    /\ g_prim' = [g_prim EXCEPT
                    ![i].status = IF ok THEN "fulfilled" ELSE "rejected",
                    ![i].value = IF ok THEN ChatResult(r) ELSE NoChatResult,
                    ![i].reason = IF ok THEN NoReason ELSE GenerateError(i)]
    /\ g_outOfOrder' = (g_outOfOrder \/
                           \E j \in 1..(i - 1) : g_prim[j].status = "pending")
    /\ UNCHANGED <<cbVars, g_pc, g_messages, g_options, g_runManagers, g_notified,
                   g_firstRej, g_generations, g_llmOutputs, g_output, g_error>>
    /\ UNCHANGED <<vecVars, batchVars, streamVars>>

PrimResolves ==
    \E i \in 1..Len(g_prim), r \in ReplyTexts : PrimSettles(i, TRUE, r)
PrimRejects ==
    \E i \in 1..Len(g_prim) : PrimSettles(i, FALSE, "r1")

\* A variant awaiting the primitives with Promise.all: it goes on at the
\* first rejection, with the lists still pending treated as failed.
AllSettled_failFast ==
    /\ g_pc = "settle"
    /\ \/ \A i \in 1..Len(g_prim) : g_prim[i].status # "pending"
       \/ \E i \in 1..Len(g_prim) : g_prim[i].status = "rejected"
    /\ LET n == Len(g_prim)
           new == [i \in 1..n |->
                      BranchNotification(g_prim[i], g_runManagers, i)]
       IN /\ cb_events' = cb_events \o new
          /\ cb_pending' = cb_pending \cup
                {Len(cb_events) + i : i \in 1..n}
          /\ g_notified' = [i \in 1..n |-> Len(cb_events) + i]
          /\ g_generations' = [i \in 1..n |->
                IF g_prim[i].status = "fulfilled"
                THEN g_prim[i].value.generations ELSE <<>>]
          /\ g_llmOutputs' = [i \in 1..n |->
                IF g_prim[i].status = "fulfilled"
                THEN g_prim[i].value.llmOutput ELSE NoLLMOutput]
    /\ g_pc' = "notify"
    /\ UNCHANGED <<g_messages, g_options, g_runManagers, g_prim, g_firstRej, g_output,
                   g_error,
                   g_outOfOrder>>
    /\ UNCHANGED <<vecVars, batchVars, streamVars>>

\* line 212 resumes once every primitive settled; lines 222-239 run the map
\* callback for every result in order, which records the fulfilled results
\* and calls handleLLMEnd or handleLLMError; generate suspends at line 224.
AllSettled ==
    /\ g_pc = "settle"
    /\ \A i \in 1..Len(g_prim) : g_prim[i].status # "pending"
    /\ LET n == Len(g_prim)
           new == [i \in 1..n |->
                      BranchNotification(g_prim[i], g_runManagers, i)]
       IN /\ cb_events' = cb_events \o new
          /\ cb_pending' = cb_pending \cup
                {Len(cb_events) + i : i \in 1..n}
          /\ g_notified' = [i \in 1..n |-> Len(cb_events) + i]
          /\ g_generations' = [i \in 1..n |->
                IF g_prim[i].status = "fulfilled"
                THEN g_prim[i].value.generations ELSE <<>>]
          /\ g_llmOutputs' = [i \in 1..n |->
                IF g_prim[i].status = "fulfilled"
                THEN g_prim[i].value.llmOutput ELSE NoLLMOutput]
    /\ g_pc' = "notify"
    /\ UNCHANGED <<g_messages, g_options, g_runManagers, g_prim, g_firstRej, g_output,
                   g_error,
                   g_outOfOrder>>
    /\ UNCHANGED <<vecVars, batchVars, streamVars>>

\* An end or error notification completes.  The branch of a rejected list
\* rejects once its error notification completed (lines 236-237), and the
\* first branch to reject settles the Promise.all of line 224.
NotificationCompletes ==
    /\ \E e \in cb_pending :
        /\ cb_pending' = cb_pending \ {e}
        /\ g_firstRej' =
             IF g_pc = "notify" /\ g_firstRej = 0
                /\ \E i \in 1..Len(g_notified) :
                      g_notified[i] = e /\ g_prim[i].status = "rejected"
             THEN CHOOSE i \in 1..Len(g_notified) : g_notified[i] = e
             ELSE g_firstRej
    /\ UNCHANGED <<cb_events, g_pc, g_messages, g_options, g_runManagers, g_prim,
                   g_notified, g_generations, g_llmOutputs, g_output, g_error,
                   g_outOfOrder>>
    /\ UNCHANGED <<vecVars, batchVars, streamVars>>

\* A variant whose result lists the generations from the last list to the
\* first.
GenerateReturns_reversed ==
    /\ g_pc = "notify"
    /\ \A i \in 1..Len(g_prim) :
          g_prim[i].status = "fulfilled" /\ g_notified[i] \notin cb_pending
    /\ g_output' = [generations |->
                        [i \in 1..Len(g_generations) |->
                            g_generations[Len(g_generations) + 1 - i]],
                    llmOutput |-> IF Len(g_llmOutputs) # 0
                                  THEN CombineLLMOutput(g_llmOutputs)
                                  ELSE UndefinedLLMOutput,
                    runIds |-> g_runManagers]
    /\ g_pc' = "returned"
    /\ UNCHANGED <<cbVars, g_messages, g_options, g_runManagers, g_prim, g_notified,
                   g_firstRej, g_generations, g_llmOutputs, g_error,
                   g_outOfOrder>>
    /\ UNCHANGED <<vecVars, batchVars, streamVars>>

\* line 224 resumes: every branch fulfilled; lines 241-254 build the result
GenerateReturns ==
    /\ g_pc = "notify"
    /\ \A i \in 1..Len(g_prim) :
          g_prim[i].status = "fulfilled" /\ g_notified[i] \notin cb_pending
    /\ g_output' = [generations |-> g_generations,
                    llmOutput |-> IF Len(g_llmOutputs) # 0
                                  THEN CombineLLMOutput(g_llmOutputs)
                                  ELSE UndefinedLLMOutput,
                    runIds |-> g_runManagers]
    /\ g_pc' = "returned"
    /\ UNCHANGED <<cbVars, g_messages, g_options, g_runManagers, g_prim, g_notified,
                   g_firstRej, g_generations, g_llmOutputs, g_error,
                   g_outOfOrder>>
    /\ UNCHANGED <<vecVars, batchVars, streamVars>>

\* A variant in which the rejected branch does not re-raise its reason, so
\* that generate returns the generations it has.
GenerateFails_swallowed ==
    /\ g_pc = "notify"
    /\ g_firstRej # 0
    /\ g_output' = [generations |-> g_generations,
                    llmOutput |-> CombineLLMOutput(g_llmOutputs),
                    runIds |-> g_runManagers]
    /\ g_pc' = "returned"
    /\ UNCHANGED <<cbVars, g_messages, g_options, g_runManagers, g_prim, g_notified,
                   g_firstRej, g_generations, g_llmOutputs, g_error,
                   g_outOfOrder>>
    /\ UNCHANGED <<vecVars, batchVars, streamVars>>

\* line 224 throws: a branch rejected (line 237), and generate fails with
\* the reason of the first branch that did
GenerateFails ==
    /\ g_pc = "notify"
    /\ g_firstRej # 0
    /\ g_error' = g_prim[g_firstRej].reason
    /\ g_pc' = "failed"
    /\ UNCHANGED <<cbVars, g_messages, g_options, g_runManagers, g_prim, g_notified,
                   g_firstRej, g_generations, g_llmOutputs, g_output,
                   g_outOfOrder>>
    /\ UNCHANGED <<vecVars, batchVars, streamVars>>

InitCallbacks ==
    /\ cb_events = <<>>
    /\ cb_pending = {}

InitGenerate ==
    /\ g_pc = "idle"
    /\ g_messages = <<>>
    /\ g_options = EmptyCallOptions
    /\ g_runManagers = <<>>
    /\ g_prim = <<>>
    /\ g_notified = <<>>
    /\ g_firstRej = 0
    /\ g_generations = <<>>
    /\ g_llmOutputs = <<>>
    /\ g_output = [generations |-> <<>>, llmOutput |-> UndefinedLLMOutput,
                   runIds |-> <<>>]
    /\ g_error = NoReason
    /\ g_outOfOrder = FALSE

\* ----------------------------------------- BaseChatModel._streamIterator
Step(op, n) == [op |-> op, n |-> n]

\* A chunk emitted by the chunk producer
Chunk(t) == Generation(<<t>>)

\* ChatGenerationChunk.concat: the texts and the message contents, in order
Concat(left, right) ==
    [defined |-> TRUE, text |-> left.text \o right.text,
     message |-> [content |-> left.message.content \o right.message.content]]

\* A variant that keeps the last chunk only.
FoldChunk_lastOnly(generationChunk, chunk) == chunk

\* lines 150-154
FoldChunk(generationChunk, chunk) ==
    IF ~generationChunk.defined THEN chunk ELSE Concat(generationChunk, chunk)

\* BaseChatModel._convertInputToPromptValue(input).toChatMessages(), for an
\* input that is a list of messages already
ConvertInputToChatMessages(input) == input

\* stream(input, options): _streamIterator(input, options) makes the
\* generator; none of its code runs before the consumer asks for a value.
Stream(override, input, options) ==
    /\ s_pc = "idle"
    /\ s_override' = override
    /\ s_input' = input
    /\ s_options' = options
    /\ s_pc' = "created"
    /\ UNCHANGED <<s_callOptions, s_producerOptions, s_runManagers, s_notified,
                   s_chunk, s_generationChunk, s_produced, s_delivered,
                   s_invokes, s_error, s_trace>>

StreamCall ==
    /\ s_pc = "idle"
    /\ \E override \in BOOLEAN, input \in MsgLists,
          options \in StreamOptionArgs : Stream(override, input, options)
    /\ UNCHANGED <<vecVars, batchVars, cbVars, genVars>>

\* A variant without the check of lines 110-113: the generator starts a run
\* of its own and then calls invoke, which starts another.
NextStartsInvoke_alsoStarts ==
    /\ s_pc = "created"
    /\ ~s_override
    /\ s_invokes' = s_invokes + 1
    /\ g_pc = "idle"
    /\ LET messages == <<ConvertInputToChatMessages(s_input)>>
           own == HandleChatModelStart(cb_events, messages)
           started == HandleChatModelStart(own.events, messages)
       IN /\ cb_events' = started.events
          /\ g_runManagers' = started.runManagers
          /\ g_messages' = messages
          /\ g_options' = ParseOptions(s_options)
    /\ g_pc' = "start"
    /\ s_pc' = "invoke"
    /\ s_trace' = Append(s_trace, Step("invoke", s_invokes + 1))
    /\ UNCHANGED <<cb_pending, g_prim, g_notified, g_firstRej, g_generations,
                   g_llmOutputs, g_output, g_error,
                   g_outOfOrder>>
    /\ UNCHANGED <<s_override, s_input, s_options, s_callOptions,
                   s_producerOptions, s_runManagers, s_notified, s_chunk,
                   s_generationChunk, s_produced, s_delivered, s_error>>
    /\ UNCHANGED <<vecVars, batchVars>>

\* The first next() of a generator whose class does not override the chunk
\* producer: line 114 calls this.invoke, which (lines 85-90) goes through
\* generatePrompt (lines 276-279) to generate with the one message list.
NextStartsInvoke ==
    /\ s_pc = "created"
    /\ ~s_override
    /\ s_invokes' = s_invokes + 1
    /\ Generate(<<ConvertInputToChatMessages(s_input)>>, s_options)
    /\ s_pc' = "invoke"
    /\ s_trace' = Append(s_trace, Step("invoke", s_invokes + 1))
    /\ UNCHANGED <<s_override, s_input, s_options, s_callOptions,
                   s_producerOptions, s_runManagers, s_notified, s_chunk,
                   s_generationChunk, s_produced, s_delivered, s_error>>
    /\ UNCHANGED <<vecVars, batchVars>>

\* generate returned to invoke, whose lines 91-93 take the first generation's
\* message; line 114 yields it
InvokeReturns ==
    /\ s_pc = "invoke"
    /\ g_pc = "returned"
    /\ s_delivered' = Append(s_delivered, g_output.generations[1][1].message)
    /\ s_pc' = "yielded"
    /\ s_trace' = Append(s_trace, Step("yield", Len(s_delivered) + 1))
    /\ UNCHANGED <<s_override, s_input, s_options, s_callOptions,
                   s_producerOptions, s_runManagers, s_notified, s_chunk,
                   s_generationChunk, s_produced, s_invokes, s_error>>
    /\ UNCHANGED <<vecVars, batchVars, cbVars, genVars>>

\* generate failed: invoke rejects and line 114 throws to the consumer
InvokeThrows ==
    /\ s_pc = "invoke"
    /\ g_pc = "failed"
    /\ s_error' = g_error
    /\ s_pc' = "raised"
    /\ s_trace' = Append(s_trace, Step("raise", 0))
    /\ UNCHANGED <<s_override, s_input, s_options, s_callOptions,
                   s_producerOptions, s_runManagers, s_notified, s_chunk,
                   s_generationChunk, s_produced, s_delivered, s_invokes>>
    /\ UNCHANGED <<vecVars, batchVars, cbVars, genVars>>

\* next() after the one value of line 114: the generator is over
NextAfterInvoke ==
    /\ s_pc = "yielded"
    /\ ~s_override
    /\ s_pc' = "done"
    /\ s_trace' = Append(s_trace, Step("done", 0))
    /\ UNCHANGED <<s_override, s_input, s_options, s_callOptions,
                   s_producerOptions, s_runManagers, s_notified, s_chunk,
                   s_generationChunk, s_produced, s_delivered, s_invokes,
                   s_error>>
    /\ UNCHANGED <<vecVars, batchVars, cbVars, genVars>>

\* The first next() with an overridden chunk producer: lines 116-141, up to
\* the await of handleChatModelStart for the one message list.  s_runManagers
\* holds the value the awaited promise resolves with.
NextStartsRun ==
    /\ s_pc = "created"
    /\ s_override
    /\ LET started == HandleChatModelStart(
                          cb_events, <<ConvertInputToChatMessages(s_input)>>)
       IN /\ cb_events' = started.events
          /\ s_runManagers' = started.runManagers
    /\ s_callOptions' =
          _separateRunnableConfigFromCallOptions(
              IF s_options.kind = "absent" THEN EmptyCallOptions
              ELSE s_options.object).callOptions
    /\ s_pc' = "start"
    /\ s_trace' = Append(s_trace, Step("start", 0))
    /\ UNCHANGED <<s_override, s_input, s_options,
                   s_producerOptions, s_notified, s_chunk,
                   s_generationChunk, s_produced, s_delivered, s_invokes,
                   s_error>>
    /\ UNCHANGED <<vecVars, batchVars, cb_pending, genVars>>

\* line 135 resumes; line 142; lines 144-148 call the producer with
\* callOptions and ask it for its first chunk
StreamStartReturns ==
    /\ s_pc = "start"
    /\ s_generationChunk' = UndefinedGeneration
    /\ s_producerOptions' = s_callOptions
    /\ s_pc' = "request"
    /\ s_trace' = Append(s_trace, Step("request", Len(s_produced) + 1))
    /\ UNCHANGED <<s_override, s_input, s_options, s_callOptions,
                   s_runManagers, s_notified, s_chunk,
                   s_produced, s_delivered, s_invokes, s_error>>
    /\ UNCHANGED <<vecVars, batchVars, cbVars, genVars>>

\* A variant yielding only in the else branch of line 152: the first chunk
\* is folded and never yielded.
ProducerYields_skipFirst ==
    /\ s_pc = "request"
    /\ Len(s_produced) < MaxChunks
    /\ \E t \in ChunkTexts :
        /\ s_produced' = Append(s_produced, Chunk(t))
        /\ s_chunk' = Chunk(t)
        /\ s_delivered' = IF s_produced = <<>> THEN s_delivered
                          ELSE Append(s_delivered, Chunk(t).message)
    /\ s_pc' = "yielded"
    /\ s_trace' = Append(s_trace, Step("yield", Len(s_produced) + 1))
    /\ UNCHANGED <<s_override, s_input, s_options, s_callOptions,
                   s_producerOptions, s_runManagers, s_notified,
                   s_generationChunk, s_invokes, s_error>>
    /\ UNCHANGED <<vecVars, batchVars, cbVars, genVars>>

\* The producer emits a chunk: line 144 resumes with it and line 149 yields
\* its message to the consumer.
ProducerYields ==
    /\ s_pc = "request"
    /\ Len(s_produced) < MaxChunks
    /\ \E t \in ChunkTexts :
        /\ s_produced' = Append(s_produced, Chunk(t))
        /\ s_chunk' = Chunk(t)
        /\ s_delivered' = Append(s_delivered, Chunk(t).message)
    /\ s_pc' = "yielded"
    /\ s_trace' = Append(s_trace, Step("yield", Len(s_produced) + 1))
    /\ UNCHANGED <<s_override, s_input, s_options, s_callOptions,
                   s_producerOptions, s_runManagers, s_notified,
                   s_generationChunk, s_invokes, s_error>>
    /\ UNCHANGED <<vecVars, batchVars, cbVars, genVars>>

\* next() at the yield of line 149: lines 150-154 fold the chunk, and line
\* 144 asks the producer for the next one
NextResumes ==
    /\ s_pc = "yielded"
    /\ s_override
    /\ s_generationChunk' = FoldChunk(s_generationChunk, s_chunk)
    /\ s_pc' = "request"
    /\ s_trace' = Append(s_trace, Step("request", Len(s_produced) + 1))
    /\ UNCHANGED <<s_override, s_input, s_options, s_callOptions,
                   s_producerOptions, s_runManagers, s_notified, s_chunk,
                   s_produced, s_delivered, s_invokes, s_error>>
    /\ UNCHANGED <<vecVars, batchVars, cbVars, genVars>>

\* The producer is exhausted: the loop of line 144 is left, and lines 164-171
\* call handleLLMEnd on every run manager and await them.
ProducerReturns ==
    /\ s_pc = "request"
    /\ LET new == [i \in 1..Len(s_runManagers) |->
                      HandleLLMEnd(s_runManagers[i],
                                   <<<<s_generationChunk>>>>, NoLLMOutput)]
       IN /\ cb_events' = cb_events \o new
          /\ cb_pending' = cb_pending \cup
                {Len(cb_events) + i : i \in 1..Len(new)}
          /\ s_notified' = {Len(cb_events) + i : i \in 1..Len(new)}
    /\ s_pc' = "end"
    /\ s_trace' = Append(s_trace, Step("end", 0))
    /\ UNCHANGED <<s_override, s_input, s_options, s_callOptions,
                   s_producerOptions, s_runManagers, s_chunk,
                   s_generationChunk, s_produced, s_delivered, s_invokes,
                   s_error>>
    /\ UNCHANGED <<vecVars, batchVars, genVars>>

\* The producer fails: line 144 throws, and lines 156-161 call handleLLMError
\* on every run manager and await them.
ProducerThrows ==
    /\ s_pc = "request"
    /\ LET new == [i \in 1..Len(s_runManagers) |->
                      HandleLLMError(s_runManagers[i], ProducerError)]
       IN /\ cb_events' = cb_events \o new
          /\ cb_pending' = cb_pending \cup
                {Len(cb_events) + i : i \in 1..Len(new)}
          /\ s_notified' = {Len(cb_events) + i : i \in 1..Len(new)}
    /\ s_error' = ProducerError
    /\ s_pc' = "error"
    /\ s_trace' = Append(s_trace, Step("error", 0))
    /\ UNCHANGED <<s_override, s_input, s_options, s_callOptions,
                   s_producerOptions, s_runManagers, s_chunk,
                   s_generationChunk, s_produced, s_delivered, s_invokes>>
    /\ UNCHANGED <<vecVars, batchVars, genVars>>

\* line 164 resumes once every handleLLMEnd completed: the generator is over
EndNotified ==
    /\ s_pc = "end"
    /\ s_notified \cap cb_pending = {}
    /\ s_pc' = "done"
    /\ s_trace' = Append(s_trace, Step("done", 0))
    /\ UNCHANGED <<s_override, s_input, s_options, s_callOptions,
                   s_producerOptions, s_runManagers, s_notified, s_chunk,
                   s_generationChunk, s_produced, s_delivered, s_invokes,
                   s_error>>
    /\ UNCHANGED <<vecVars, batchVars, cbVars, genVars>>

\* A variant that does not await the handleLLMError calls before throwing.
ErrorNotified_notAwaited ==
    /\ s_pc = "error"
    /\ s_pc' = "raised"
    /\ s_trace' = Append(s_trace, Step("raise", 0))
    /\ UNCHANGED <<s_override, s_input, s_options, s_callOptions,
                   s_producerOptions, s_runManagers, s_notified, s_chunk,
                   s_generationChunk, s_produced, s_delivered, s_invokes,
                   s_error>>
    /\ UNCHANGED <<vecVars, batchVars, cbVars, genVars>>

\* line 157 resumes once every handleLLMError completed; line 162 throws the
\* producer's error to the consumer
ErrorNotified ==
    /\ s_pc = "error"
    /\ s_notified \cap cb_pending = {}
    /\ s_pc' = "raised"
    /\ s_trace' = Append(s_trace, Step("raise", 0))
    /\ UNCHANGED <<s_override, s_input, s_options, s_callOptions,
                   s_producerOptions, s_runManagers, s_notified, s_chunk,
                   s_generationChunk, s_produced, s_delivered, s_invokes,
                   s_error>>
    /\ UNCHANGED <<vecVars, batchVars, cbVars, genVars>>

\* The consumer stops iterating (return() on the generator, as a `break` out
\* of a for-await loop does): a generator not yet started is over at once;
\* one suspended at a yield completes from there, and since neither yield is
\* inside a try with a finally, no line of _streamIterator runs.
ConsumerReturns ==
    /\ s_pc \in {"created", "yielded"}
    /\ s_pc' = "closed"
    /\ s_trace' = Append(s_trace, Step("return", 0))
    /\ UNCHANGED <<s_override, s_input, s_options, s_callOptions,
                   s_producerOptions, s_runManagers, s_notified, s_chunk,
                   s_generationChunk, s_produced, s_delivered, s_invokes,
                   s_error>>
    /\ UNCHANGED <<vecVars, batchVars, cbVars, genVars>>

InitStream ==
    /\ s_pc = "idle"
    /\ s_override = FALSE
    /\ s_input = "m1"
    /\ s_options = [kind |-> "absent", stops |-> NoStops,
                    object |-> EmptyCallOptions]
    /\ s_callOptions = EmptyCallOptions
    /\ s_producerOptions = EmptyCallOptions
    /\ s_runManagers = <<>>
    /\ s_notified = {}
    /\ s_chunk = UndefinedGeneration
    /\ s_generationChunk = UndefinedGeneration
    /\ s_produced = <<>>
    /\ s_delivered = <<>>
    /\ s_invokes = 0
    /\ s_error = NoReason
    /\ s_trace = <<>>

\* -------------------------------------------- MongoDBAtlasVectorSearch
\* An object (a MongoDB document, a Document's metadata) is a function from
\* its keys to their values; <<>> is the object without keys.
EmptyObject == <<>>

\* {...base, ...extra}: the keys of both, extra's value where both have one
Spread(base, extra) ==
    [key \in DOMAIN base \cup DOMAIN extra |->
        IF key \in DOMAIN extra THEN extra[key] ELSE base[key]]

\* The object without the keys in `keys`
Without(object, keys) == [key \in DOMAIN object \ keys |-> object[key]]

PageContents == {"t1", "t2"}
Embeddings == {<<1>>, <<2>>}
Metadatas ==
    {EmptyObject, [a |-> "x"], [text |-> "other"], [embedding |-> <<9>>]}
Documents ==
    {[pageContent |-> t, metadata |-> m] : t \in PageContents, m \in Metadatas}

NoVectorError == "none"

\* A variant spreading the metadata before the text and embedding fields.
RecordOf_metadataFirst(textKey, embeddingKey, embedding, document) ==
    Spread(Spread(document.metadata, textKey :> document.pageContent),
           embeddingKey :> embedding)

\* lines 42-46: the object literal made for one vector and its document;
\* its properties are set in the order written, the metadata's last
RecordOf(textKey, embeddingKey, embedding, document) ==
    Spread(Spread(textKey :> document.pageContent, embeddingKey :> embedding),
           document.metadata)

\* addVectors(vectors, documents), lines 41-47, up to the await of
\* insertMany.  vectors.map visits every vector; documents[idx] is undefined
\* past the end of documents, and reading its pageContent throws.
AddVectors(vectors, documents) ==
    /\ v_pc = "idle"
    /\ v_op' = "addVectors"
    /\ v_vectors' = vectors
    /\ v_documents' = documents
    /\ IF \E idx \in 1..Len(vectors) : idx > Len(documents)
       THEN /\ v_pc' = "failed"
            /\ v_error' = "TypeError"
            /\ v_inserts' = v_inserts
       ELSE /\ v_inserts' = Append(v_inserts,
                [idx \in 1..Len(vectors) |->
                    RecordOf(v_textKey, v_embeddingKey, vectors[idx],
                             documents[idx])])
            /\ v_pc' = "inserting"
            /\ v_error' = v_error
    /\ UNCHANGED <<v_textKey, v_embeddingKey, v_indexName, v_stored, v_query,
                   v_k, v_filter, v_pipeline, v_ret>>

AddVectorsCall ==
    /\ v_pc = "idle"
    /\ \E vectors \in SeqsUpTo(Embeddings, MaxVectors),
          documents \in SeqsUpTo(Documents, MaxVectors) :
           AddVectors(vectors, documents)
    /\ UNCHANGED <<batchVars, cbVars, genVars, streamVars>>

\* collection.insertMany resolves: the records are in the collection, and
\* addVectors returns
InsertManyResolves ==
    /\ v_pc = "inserting"
    /\ v_stored' = v_stored \o v_inserts[Len(v_inserts)]
    /\ v_pc' = "done"
    /\ UNCHANGED <<v_textKey, v_embeddingKey, v_indexName, v_op, v_vectors,
                   v_documents, v_inserts, v_query, v_k, v_filter, v_pipeline,
                   v_ret, v_error>>
    /\ UNCHANGED <<batchVars, cbVars, genVars, streamVars>>

\* collection.insertMany rejects, and addVectors fails with its error
InsertManyRejects ==
    /\ v_pc = "inserting"
    /\ v_pc' = "failed"
    /\ v_error' = "insertMany"
    /\ UNCHANGED <<v_textKey, v_embeddingKey, v_indexName, v_op, v_vectors,
                   v_documents, v_inserts, v_stored, v_query, v_k, v_filter,
                   v_pipeline, v_ret>>
    /\ UNCHANGED <<batchVars, cbVars, genVars, streamVars>>

\* The filters a caller passes.  A preFilter is a document and a
\* postFilterPipeline an array of stages, so a field that is set is truthy.
PreFilters == {[genre |-> "g"]}
PostStage(n) == "$limit" :> n
PostFilterPipelines == {<<>>, <<PostStage(1)>>, <<PostStage(1), PostStage(2)>>,
                        <<PostStage(2), PostStage(1)>>}
FilterDocs ==
    {EmptyObject, [genre |-> "g"]}
    \cup {[preFilter |-> p] : p \in PreFilters}
    \cup {[preFilter |-> p, genre |-> "h"] : p \in PreFilters}
    \cup {[postFilterPipeline |-> pl] : pl \in PostFilterPipelines}
    \cup {[preFilter |-> p, postFilterPipeline |-> pl] :
            p \in PreFilters, pl \in PostFilterPipelines}

\* The filter argument: absent, or a filter
FilterArgs ==
    {[given |-> FALSE, doc |-> EmptyObject]}
    \cup {[given |-> TRUE, doc |-> f] : f \in FilterDocs}

\* A variant looking at the preFilter field only (`if (filter?.preFilter)`).
SelectFilters_preOnly(filter) ==
    IF filter.given /\ "preFilter" \in DOMAIN filter.doc
    THEN [hasPre |-> "preFilter" \in DOMAIN filter.doc,
          pre |-> IF "preFilter" \in DOMAIN filter.doc
                  THEN filter.doc.preFilter ELSE EmptyObject,
          hasPost |-> "postFilterPipeline" \in DOMAIN filter.doc,
          post |-> IF "postFilterPipeline" \in DOMAIN filter.doc
                   THEN filter.doc.postFilterPipeline ELSE <<>>]
    ELSE [hasPre |-> filter.given, pre |-> filter.doc,
          hasPost |-> FALSE, post |-> <<>>]

\* lines 69-74: preFilter and postFilterPipeline (has*: not undefined)
SelectFilters(filter) ==
    IF filter.given /\ ("preFilter" \in DOMAIN filter.doc
                        \/ "postFilterPipeline" \in DOMAIN filter.doc)
    THEN [hasPre |-> "preFilter" \in DOMAIN filter.doc,
          pre |-> IF "preFilter" \in DOMAIN filter.doc
                  THEN filter.doc.preFilter ELSE EmptyObject,
          hasPost |-> "postFilterPipeline" \in DOMAIN filter.doc,
          post |-> IF "postFilterPipeline" \in DOMAIN filter.doc
                   THEN filter.doc.postFilterPipeline ELSE <<>>]
    ELSE [hasPre |-> filter.given, pre |-> filter.doc,
          hasPost |-> FALSE, post |-> <<>>]

\* lines 63-67 and 76-78: knnBeta
KnnBeta(query, embeddingKey, k, selected) ==
    LET knnBeta == [vector |-> query, path |-> embeddingKey, k |-> k]
    IN IF selected.hasPre
       THEN Spread(knnBeta, "filter" :> selected.pre)
       ELSE knnBeta

\* lines 80-85
SearchStage(indexName, knnBeta) ==
    "$search" :> [index |-> indexName, knnBeta |-> knnBeta]

\* lines 86-91
ProjectStage(embeddingKey) ==
    "$project" :> Spread(embeddingKey :> 0,
                         "score" :> ("$meta" :> "searchScore"))

\* lines 79-95: pipeline
PipelineOf(indexName, embeddingKey, query, k, selected) ==
    <<SearchStage(indexName, KnnBeta(query, embeddingKey, k, selected)),
      ProjectStage(embeddingKey)>>
    \o (IF selected.hasPost THEN selected.post ELSE <<>>)

\* similaritySearchVectorWithScore(query, k, filter), lines 58-96, up to the
\* first await on the results of collection.aggregate(pipeline)
SimilaritySearch(query, k, filter) ==
    /\ v_pc = "idle"
    /\ v_op' = "search"
    /\ v_query' = query
    /\ v_k' = k
    /\ v_filter' = filter
    /\ v_pipeline' = PipelineOf(v_indexName, v_embeddingKey, query, k,
                                SelectFilters(filter))
    /\ v_pc' = "aggregating"
    /\ UNCHANGED <<v_textKey, v_embeddingKey, v_indexName, v_vectors,
                   v_documents, v_inserts, v_stored, v_ret, v_error>>

SimilaritySearchCall ==
    /\ v_pc = "idle"
    /\ \E query \in Embeddings, k \in 1..MaxK, filter \in FilterArgs :
           SimilaritySearch(query, k, filter)
    /\ UNCHANGED <<batchVars, cbVars, genVars, streamVars>>

\* What the aggregation can return: the stored fields without the embedding,
\* with a score
ResultDocs ==
    {[text |-> "t1", score |-> 9], [text |-> "t2", a |-> "x", score |-> 8],
     [body |-> "t1", score |-> 7]}

\* lines 100-103: the pair made from one result; a result without the text
\* field gives a Document whose text is undefined
ResultPair(textKey, result) ==
    [document |->
        [pageContent |-> IF textKey \in DOMAIN result THEN result[textKey]
                         ELSE "undefined",
         metadata |-> Without(result, {textKey, "score"})],
     score |-> result.score]

\* lines 98-106: the results arrive and are returned as pairs, in their order
AggregateReturns ==
    /\ v_pc = "aggregating"
    /\ \E results \in SeqsUpTo(ResultDocs, MaxK) :
          v_ret' = [n \in 1..Len(results) |-> ResultPair(v_textKey, results[n])]
    /\ v_pc' = "done"
    /\ UNCHANGED <<v_textKey, v_embeddingKey, v_indexName, v_op, v_vectors,
                   v_documents, v_inserts, v_stored, v_query, v_k, v_filter,
                   v_pipeline, v_error>>
    /\ UNCHANGED <<batchVars, cbVars, genVars, streamVars>>

\* the aggregation fails, and so does the search
AggregateFails ==
    /\ v_pc = "aggregating"
    /\ v_pc' = "failed"
    /\ v_error' = "aggregate"
    /\ UNCHANGED <<v_textKey, v_embeddingKey, v_indexName, v_op, v_vectors,
                   v_documents, v_inserts, v_stored, v_query, v_k, v_filter,
                   v_pipeline, v_ret>>
    /\ UNCHANGED <<batchVars, cbVars, genVars, streamVars>>

\* The constructor, lines 33-39, with the default keys and index name
InitVectorsDefault ==
    /\ v_textKey = "text"
    /\ v_embeddingKey = "embedding"
    /\ v_indexName = "default"
    /\ v_pc = "idle"
    /\ v_op = "none"
    /\ v_vectors = <<>>
    /\ v_documents = <<>>
    /\ v_inserts = <<>>
    /\ v_stored = <<>>
    /\ v_query = <<>>
    /\ v_k = 0
    /\ v_filter = [given |-> FALSE, doc |-> EmptyObject]
    /\ v_pipeline = <<>>
    /\ v_ret = <<>>
    /\ v_error = NoVectorError

\* The constructor with a textKey, an embeddingKey and an indexName given
InitVectors ==
    /\ v_textKey \in {"text", "body"}
    /\ v_embeddingKey \in {"embedding", "vec"}
    /\ v_indexName \in {"default", "idx"}
    /\ v_pc = "idle"
    /\ v_op = "none"
    /\ v_vectors = <<>>
    /\ v_documents = <<>>
    /\ v_inserts = <<>>
    /\ v_stored = <<>>
    /\ v_query = <<>>
    /\ v_k = 0
    /\ v_filter = [given |-> FALSE, doc |-> EmptyObject]
    /\ v_pipeline = <<>>
    /\ v_ret = <<>>
    /\ v_error = NoVectorError

InitBatch ==
    /\ b_pc = "idle"
    /\ b_inputs = <<>>
    /\ b_options = [kind |-> "absent", one |-> EmptyOptions, arr |-> <<>>]
    /\ b_maxConc = [present |-> FALSE, val |-> 0]
    /\ b_configList = <<>>
    /\ b_batchSize = 0
    /\ b_i = 0
    /\ b_calls = <<>>
    /\ b_promises = <<>>
    /\ b_firstRej = 0
    /\ b_batchResults = <<>>
    /\ b_out = <<>>
    /\ b_error = NoError
    /\ b_outOfOrder = FALSE

Init == InitBatch /\ InitCallbacks /\ InitGenerate /\ InitStream
        /\ InitVectorsDefault

InitVec == InitBatch /\ InitCallbacks /\ InitGenerate /\ InitStream
           /\ InitVectors

NextBatch ==
    \/ BatchCall
    \/ InvokeResolves
    \/ InvokeRejects
    \/ WindowResolved
    \/ WindowRejected

SpecBatch == Init /\ [][NextBatch]_vars

NextGenerate ==
    \/ GenerateCall
    \/ ChatModelStartReturns
    \/ PrimResolves
    \/ PrimRejects
    \/ AllSettled
    \/ NotificationCompletes
    \/ GenerateReturns
    \/ GenerateFails

SpecGenerate == Init /\ [][NextGenerate]_vars

NextStream ==
    \/ StreamCall
    \/ NextStartsInvoke
    \/ ChatModelStartReturns
    \/ PrimResolves
    \/ PrimRejects
    \/ AllSettled
    \/ NotificationCompletes
    \/ GenerateReturns
    \/ GenerateFails
    \/ InvokeReturns
    \/ InvokeThrows
    \/ NextAfterInvoke
    \/ NextStartsRun
    \/ StreamStartReturns
    \/ ProducerYields
    \/ NextResumes
    \/ ProducerReturns
    \/ ProducerThrows
    \/ EndNotified
    \/ ErrorNotified
    \/ ConsumerReturns

SpecStream == Init /\ [][NextStream]_vars

NextVectors ==
    \/ AddVectorsCall
    \/ InsertManyResolves
    \/ InsertManyRejects
    \/ SimilaritySearchCall
    \/ AggregateReturns
    \/ AggregateFails

SpecVectors == InitVec /\ [][NextVectors]_vars

\* ------------------------------------------------------- claims on batch

\* C1: a batch call in which every invoke succeeded returns as many outputs
\* as it was given inputs, and output i is the result of the invoke that was
\* called on inputs[i], whatever maxConcurrency is and in whatever order the
\* invokes completed.
C1_BatchOutputsAlignWithInputs ==
    b_pc = "done" =>
        /\ Len(b_out) = Len(b_inputs)
        /\ Len(b_calls) = Len(b_inputs)
        /\ \A n \in 1..Len(b_inputs) :
              /\ b_calls[n].input = b_inputs[n]
              /\ b_calls[n].index = n - 1
              /\ b_out[n] = ResultOf(n, b_calls[n])

\* Three inputs in two windows, an invoke completing before an earlier one.
C1_Witness ==
    /\ b_pc = "done"
    /\ Len(b_inputs) = 3
    /\ b_maxConc.present /\ b_maxConc.val = 2
    /\ b_outOfOrder

\* C2: with a per-input options array, the input at index i is invoked with
\* the options at index i.
C2_PerInputOptions ==
    b_options.kind = "array" =>
        \A k \in 1..Len(b_calls) :
            b_calls[k].options = b_options.arr[b_calls[k].index + 1]

\* C3: a batch call whose options array has another length than the inputs
\* fails with the mismatch error, and invoke was called for no input.
C3_OptionsLengthMismatchFails ==
    (b_pc # "idle" /\ b_options.kind = "array"
        /\ Len(b_options.arr) # Len(b_inputs)) =>
        /\ b_pc = "failed"
        /\ b_error = MismatchError
        /\ b_calls = <<>>
        /\ b_out = <<>>

\* More options than inputs, with inputs to invoke.
C3_Witness ==
    /\ b_pc = "failed"
    /\ b_options.kind = "array"
    /\ Len(b_options.arr) > Len(b_inputs)
    /\ Len(b_inputs) > 0

\* C4: once an invoke of a batch call failed, the call never returns an
\* output, it fails with the first failure of the window it was awaiting, and
\* no input beyond that window is ever invoked.
C4_InvokeFailureFailsBatch ==
    (\E k \in 1..Len(b_calls) : b_calls[k].status = "err") =>
        /\ b_pc \in {"await", "failed"}
        /\ b_firstRej # 0
        /\ b_calls[b_firstRej].status = "err"
        /\ b_pc = "failed" => b_error = InvokeError(b_firstRej)
        /\ b_out = <<>>
        /\ \A k \in 1..Len(b_calls) : b_calls[k].index < b_i + b_batchSize

\* A failure in the second of three windows: the first window had succeeded
\* and the third is never invoked.
C4_Witness ==
    /\ b_pc = "failed"
    /\ b_error.kind = "invoke-failed"
    /\ b_i > 0
    /\ b_i + b_batchSize < Len(b_inputs)
    /\ Len(b_batchResults) > 0

\* ---------------------------------------------------- claims on generate

\* The notifications of kind `kind` issued on run `run`
Notifications(kind, run) ==
    {e \in 1..Len(cb_events) :
        cb_events[e].kind = kind /\ cb_events[e].run = run}

NotificationsOfKind(kind) ==
    {e \in 1..Len(cb_events) : cb_events[e].kind = kind}

RejectedLists == {i \in 1..Len(g_prim) : g_prim[i].status = "rejected"}

\* C5: when generate returns over N message lists, N runs were started, one
\* handle per list, each handle received exactly one end notification, which
\* carries the generations and the output its own list's primitive produced,
\* and no error notification was issued.
C5_GenerateSuccessNotifiesEachRun ==
    g_pc = "returned" =>
        LET n == Len(g_messages)
        IN /\ Cardinality(NotificationsOfKind("start")) = n
           /\ Len(g_runManagers) = n
           /\ \A i, j \in 1..n :
                 i # j => g_runManagers[i] # g_runManagers[j]
           /\ \A i \in 1..n :
                 /\ \E e \in Notifications("start", g_runManagers[i]) :
                       cb_events[e].messages = g_messages[i]
                 /\ Cardinality(Notifications("start", g_runManagers[i])) = 1
                 /\ g_prim[i].runManager = g_runManagers[i]
                 /\ Cardinality(Notifications("end", g_runManagers[i])) = 1
                 /\ \A e \in Notifications("end", g_runManagers[i]) :
                       cb_events[e] =
                           HandleLLMEnd(g_runManagers[i],
                                        <<g_prim[i].value.generations>>,
                                        g_prim[i].value.llmOutput)
           /\ Cardinality(NotificationsOfKind("end")) = n
           /\ NotificationsOfKind("error") = {}

\* generate returned over three lists whose primitives did not all produce
\* the same result.
C5_Witness ==
    /\ g_pc = "returned"
    /\ Len(g_messages) = 3
    /\ g_prim[1].value # g_prim[2].value
    /\ g_messages[2] # g_messages[3]

\* C6: when the primitive of exactly one list fails, every other list's
\* handle receives exactly one end notification, the failed list's handle
\* receives exactly one error notification carrying the failure and no end
\* notification, and generate does not return: it fails with that failure.
C6_OneFailureNotifiesAllAndFails ==
    (g_pc \in {"notify", "returned", "failed"}
        /\ Cardinality(RejectedLists) = 1) =>
        \A i \in RejectedLists :
            /\ \A j \in 1..Len(g_messages) \ {i} :
                  /\ Cardinality(Notifications("end", g_runManagers[j])) = 1
                  /\ Notifications("error", g_runManagers[j]) = {}
                  /\ \A e \in Notifications("end", g_runManagers[j]) :
                        cb_events[e].generations =
                            <<g_prim[j].value.generations>>
            /\ Cardinality(Notifications("error", g_runManagers[i])) = 1
            /\ \A e \in Notifications("error", g_runManagers[i]) :
                  cb_events[e].reason = g_prim[i].reason
            /\ Notifications("end", g_runManagers[i]) = {}
            /\ g_pc # "returned"
            /\ g_pc = "failed" => g_error = g_prim[i].reason
            /\ (g_pc = "notify" /\ g_notified[i] \notin cb_pending) =>
                  g_firstRej = i

\* generate failed because the second of three lists failed.
C6_Witness ==
    /\ g_pc = "failed"
    /\ Len(g_messages) = 3
    /\ RejectedLists = {2}
    /\ g_error = GenerateError(2)

\* ------------------------------------------------------ claims on stream

StreamIsOver == s_pc \in {"done", "raised", "closed"}

\* C7: with an overridden chunk producer, once the streamed sequence is over
\* (producer exhausted, producer failure, or the consumer stopping), every
\* run that was started has received exactly one end or error notification.
C7_StartedRunIsClosedOnce ==
    (s_override /\ StreamIsOver) =>
        \A e \in NotificationsOfKind("start") :
            Cardinality(Notifications("end", cb_events[e].run)
                        \cup Notifications("error", cb_events[e].run)) = 1

\* C8: without an overridden chunk producer the generator calls invoke once,
\* yields that invoke's result as its only element, and the only
\* notifications are those of the one generate call behind that invoke: one
\* start, and one end or error.
C8_DefaultStreamIsOneInvoke ==
    (~s_override /\ s_pc # "idle") =>
        /\ s_invokes <= 1
        /\ s_runManagers = <<>>
        /\ Cardinality(NotificationsOfKind("start")) = s_invokes
        /\ \A e \in 1..Len(cb_events) :
              \E i \in 1..Len(g_runManagers) :
                  cb_events[e].run = g_runManagers[i]
        /\ Cardinality(NotificationsOfKind("end")
                       \cup NotificationsOfKind("error")) <= s_invokes
        /\ Len(s_delivered) <= 1
        /\ s_pc \in {"yielded", "done"} =>
              /\ s_invokes = 1
              /\ s_delivered = <<g_output.generations[1][1].message>>
              /\ s_delivered = <<g_prim[1].value.generations[1].message>>
              /\ Cardinality(NotificationsOfKind("end")) = 1
              /\ NotificationsOfKind("error") = {}
        /\ s_pc = "raised" =>
              /\ s_invokes = 1
              /\ s_delivered = <<>>
              /\ Cardinality(NotificationsOfKind("error")) = 1
              /\ NotificationsOfKind("end") = {}

\* The default stream was consumed to its end.
C8_Witness ==
    /\ ~s_override
    /\ s_pc = "done"
    /\ s_invokes = 1
    /\ Len(s_delivered) = 1

\* The positions of a step in the generator's trace
Positions(op, n) ==
    {p \in 1..Len(s_trace) : s_trace[p] = Step(op, n)}

\* C9: with an overridden chunk producer the values delivered are the
\* messages of the chunks produced, in producer order, none dropped or
\* repeated; chunk k is yielded before chunk k+1 is requested; and the start
\* notification is issued before the first chunk is requested.
C9_ChunksYieldedInProducerOrder ==
    s_override =>
        /\ Len(s_delivered) = Len(s_produced)
        /\ \A k \in 1..Len(s_produced) :
              s_delivered[k] = s_produced[k].message
        /\ \A k \in 1..Len(s_produced) :
              /\ Cardinality(Positions("yield", k)) = 1
              /\ Cardinality(Positions("request", k)) = 1
              /\ \A r \in Positions("request", k + 1),
                    y \in Positions("yield", k) : y < r
              /\ \A r \in Positions("request", k),
                    y \in Positions("yield", k) : r < y
        /\ \A r \in Positions("request", 1) :
              /\ Cardinality(Positions("start", 0)) = 1
              /\ \A st \in Positions("start", 0) : st < r
              /\ Cardinality(NotificationsOfKind("start")) = 1

\* Three chunks were delivered, not all alike, and the producer was asked
\* for a fourth.
C9_Witness ==
    /\ s_override
    /\ Len(s_delivered) = 3
    /\ s_produced[1] # s_produced[2]
    /\ s_pc = "request"

\* C10: when an overridden chunk producer fails after k chunks, the consumer
\* has received exactly those k messages, one error notification carrying
\* the producer's error is issued and no end notification, and the error is
\* raised to the consumer only when that notification has completed.
C10_ProducerFailureNotifiedThenRaised ==
    (s_override /\ s_pc \in {"error", "raised"}) =>
        /\ s_delivered = [k \in 1..Len(s_produced) |-> s_produced[k].message]
        /\ Len(s_runManagers) = 1
        /\ Cardinality(NotificationsOfKind("error")) = 1
        /\ \A e \in NotificationsOfKind("error") :
              /\ cb_events[e] = HandleLLMError(s_runManagers[1], ProducerError)
              /\ s_pc = "raised" => e \notin cb_pending
        /\ NotificationsOfKind("end") = {}
        /\ s_error = ProducerError

\* The producer failed after two chunks and the error reached the consumer.
C10_Witness ==
    /\ s_override
    /\ s_pc = "raised"
    /\ Len(s_delivered) = 2
    /\ s_error = ProducerError

\* ------------------------------------------------ claims on call options

\* Options that carry a timeout and no cancellation signal
HasTimeoutAndNoSignal(options) ==
    options.hasTimeout /\ options.timeout # 0 /\ options.signal = "absent"

\* C11: when the options of a generate call or of a streaming call carry a
\* timeout and no cancellation signal, the options the generation primitive
\* (_generate, or the chunk producer) receives contain a signal derived from
\* the timeout.
C11_PrimitiveReceivesTimeoutSignal ==
    /\ HasTimeoutAndNoSignal(g_options) =>
          \A i \in 1..Len(g_prim) : g_prim[i].options.signal = "timeout"
    /\ (s_override /\ Positions("request", 1) # {}
           /\ s_options.kind = "object"
           /\ HasTimeoutAndNoSignal(s_options.object)) =>
          s_producerOptions.signal = "timeout"


\* ---------------------------------------------------------------- C12
\* C12: an addVectors call whose number of vectors differs from its number
\* of documents (more vectors, or fewer) fails, and no record is inserted
\* into the backing store: insertMany is not called, the collection stays
\* empty.
C12_CountMismatchFailsWithoutInsert ==
    (v_op = "addVectors" /\ Len(v_vectors) # Len(v_documents)) =>
        /\ v_pc = "failed"
        /\ v_inserts = <<>>
        /\ v_stored = <<>>

\* ---------------------------------------------------------------- C13
AddVectorsWithEqualCounts ==
    v_op = "addVectors" /\ Len(v_vectors) = Len(v_documents)

\* One call of insertMany, with one record per vector, in input order
OneBulkInsertOfAll ==
    /\ Len(v_inserts) = 1
    /\ Len(v_inserts[1]) = Len(v_vectors)

\* C13 as stated: after addVectors with n vectors and n documents, one bulk
\* insert has been made with n records, and record i has documents[i]'s text
\* in the text field, vectors[i] in the embedding field and every metadata
\* field of documents[i] with its value, whatever the metadata's keys are.
C13_RecordHoldsTextEmbeddingAndMetadata ==
    AddVectorsWithEqualCounts =>
        /\ OneBulkInsertOfAll
        /\ \A i \in 1..Len(v_vectors) :
              LET record == v_inserts[1][i]
                  metadata == v_documents[i].metadata
              IN /\ record[v_textKey] = v_documents[i].pageContent
                 /\ record[v_embeddingKey] = v_vectors[i]
                 /\ \A key \in DOMAIN metadata : record[key] = metadata[key]

\* C13, amended: after addVectors with n vectors and n documents, one bulk
\* insert has been made with n records, in input order; record i has exactly
\* the text field, the embedding field and the metadata's fields, every
\* metadata field with its value; the text field is documents[i]'s text and
\* the embedding field is vectors[i] unless the metadata has a key of that
\* name, whose value is stored instead.
C13_MetadataOverridesTextAndEmbedding ==
    AddVectorsWithEqualCounts =>
        /\ OneBulkInsertOfAll
        /\ \A i \in 1..Len(v_vectors) :
              LET record == v_inserts[1][i]
                  metadata == v_documents[i].metadata
              IN /\ DOMAIN record =
                       {v_textKey, v_embeddingKey} \cup DOMAIN metadata
                 /\ \A key \in DOMAIN metadata : record[key] = metadata[key]
                 /\ v_textKey \notin DOMAIN metadata =>
                       record[v_textKey] = v_documents[i].pageContent
                 /\ v_embeddingKey \notin DOMAIN metadata =>
                       record[v_embeddingKey] = v_vectors[i]

\* Two records inserted, the first from a document whose metadata has the
\* text field's key and the second from one whose metadata has not
C13_Witness ==
    /\ AddVectorsWithEqualCounts
    /\ v_pc = "done"
    /\ Len(v_stored) = 2
    /\ v_textKey \in DOMAIN v_documents[1].metadata
    /\ DOMAIN v_documents[2].metadata = {"a"}
    /\ v_documents[1].pageContent # v_documents[2].pageContent
    /\ v_vectors[1] # v_vectors[2]

\* ---------------------------------------------------------------- C14
\* C14: the request similaritySearchVectorWithScore builds is the search
\* stage, the projection stage and the post-filter stages.  With a filter
\* that has a preFilter or a postFilterPipeline field, the search stage's
\* filter is the preFilter field (none when the field is absent) and the
\* stages of postFilterPipeline follow the projection stage in their order;
\* with any other filter the whole filter is the search stage's filter and
\* nothing follows; without a filter the search stage has no filter and the
\* pipeline is the two stages.
C14_RequestFollowsFilter ==
    (v_op = "search") =>
        LET doc == v_filter.doc
            knnBeta == v_pipeline[1]["$search"].knnBeta
            appended == SubSeq(v_pipeline, 3, Len(v_pipeline))
            structured == v_filter.given
                          /\ DOMAIN doc \cap {"preFilter", "postFilterPipeline"}
                             # {}
        IN /\ Len(v_pipeline) >= 2
           /\ DOMAIN v_pipeline[1] = {"$search"}
           /\ v_pipeline[1]["$search"].index = v_indexName
           /\ knnBeta.vector = v_query
           /\ knnBeta.path = v_embeddingKey
           /\ knnBeta.k = v_k
           /\ v_pipeline[2] = ProjectStage(v_embeddingKey)
           /\ structured =>
                 /\ IF "preFilter" \in DOMAIN doc
                    THEN /\ "filter" \in DOMAIN knnBeta
                         /\ knnBeta.filter = doc.preFilter
                    ELSE "filter" \notin DOMAIN knnBeta
                 /\ appended = IF "postFilterPipeline" \in DOMAIN doc
                               THEN doc.postFilterPipeline ELSE <<>>
           /\ (v_filter.given /\ ~structured) =>
                 /\ "filter" \in DOMAIN knnBeta
                 /\ knnBeta.filter = doc
                 /\ appended = <<>>
           /\ ~v_filter.given =>
                 /\ "filter" \notin DOMAIN knnBeta
                 /\ appended = <<>>

\* A search with a postFilterPipeline of two stages and no preFilter, whose
\* results have arrived
C14_Witness ==
    /\ v_op = "search"
    /\ v_pc = "done"
    /\ v_filter.given
    /\ DOMAIN v_filter.doc = {"postFilterPipeline"}
    /\ Len(v_filter.doc.postFilterPipeline) = 2
    /\ Len(v_pipeline) = 4
    /\ Len(v_ret) = 2


\* ---------------------------------------------------------------- C15
\* The calls of this.invoke that have not settled
InFlight == {k \in 1..Len(b_calls) : b_calls[k].status = "pending"}

\* C15: in a batch call with maxConcurrency = m > 0, never more than m of
\* its invocations are in flight, and an input of a later window (its index
\* divided by m is larger) is invoked only when every invocation of the
\* earlier windows has completed; with maxConcurrency absent, zero or
\* negative, every input is invoked in the one window the call starts with.
C15_WindowsBoundConcurrency ==
    LET m == b_maxConc.val
        bounded == b_maxConc.present /\ m > 0
        started == b_pc # "idle" /\ b_error # MismatchError
    IN /\ (started /\ bounded) =>
             /\ Cardinality(InFlight) <= m
             /\ \A j \in 1..Len(b_calls), k \in 1..Len(b_calls) :
                   (b_calls[j].index \div m) < (b_calls[k].index \div m) =>
                       b_calls[j].status = "ok"
       /\ (started /\ ~bounded) =>
             /\ Len(b_calls) = Len(b_inputs)
             /\ \A k \in 1..Len(b_calls) : b_calls[k].index = k - 1

\* Four inputs with maxConcurrency 2: the second window is in flight, one of
\* its invocations has completed
C15_Witness ==
    /\ b_pc = "await"
    /\ b_maxConc.present /\ b_maxConc.val = 2
    /\ Len(b_inputs) = 4
    /\ Len(b_calls) = 4
    /\ InFlight = {3}


\* ---------------------------------------------------------------- C16
PendingLists == {i \in 1..Len(g_prim) : g_prim[i].status = "pending"}

\* C16: in a generate call over N message lists no primitive is invoked
\* while the start notification is awaited; once it has returned the
\* primitive has been invoked for every one of the N lists, each with its
\* own list, whatever the outcome of the others; and as long as one
\* primitive has not settled, generate has neither returned nor failed and
\* no end or error notification has been issued.
C16_PrimitivesSettleAllBeforeAnythingElse ==
    /\ g_pc \in {"idle", "start"} => g_prim = <<>>
    /\ g_pc \in {"settle", "notify", "returned", "failed"} =>
          /\ Len(g_prim) = Len(g_messages)
          /\ Cardinality(NotificationsOfKind("start")) = Len(g_messages)
          /\ \A i \in 1..Len(g_messages) :
                g_prim[i].messages = g_messages[i]
    /\ (g_pc \in {"idle", "start"} \/ PendingLists # {}) =>
          /\ g_pc \notin {"returned", "failed"}
          /\ NotificationsOfKind("end") = {}
          /\ NotificationsOfKind("error") = {}

\* Three lists: the first primitive has failed and the third has resolved
\* while the second is still running
C16_Witness ==
    /\ g_pc = "settle"
    /\ Len(g_messages) = 3
    /\ RejectedLists = {1}
    /\ PendingLists = {2}
    /\ g_prim[3].status = "fulfilled"


\* ---------------------------------------------------------------- C18
\* C18: when generate returns over N message lists, in whatever order the
\* primitives completed, its result has N generation entries, entry i being
\* the generations the primitive of list i produced, and the run identifiers
\* attached to it are those of the N handles in the order of the lists: the
\* i-th is the run that was started for list i and that the primitive of
\* list i was given.
C18_ResultAlignedWithMessageLists ==
    g_pc = "returned" =>
        LET n == Len(g_messages)
        IN /\ Len(g_output.generations) = n
           /\ Len(g_output.runIds) = n
           /\ \A i \in 1..n :
                 /\ g_prim[i].messages = g_messages[i]
                 /\ g_output.generations[i] = g_prim[i].value.generations
                 /\ g_output.runIds[i] = g_prim[i].runManager
                 /\ \E e \in Notifications("start", g_output.runIds[i]) :
                       cb_events[e].messages = g_messages[i]
                 /\ \A j \in 1..n :
                       i # j => g_output.runIds[i] # g_output.runIds[j]

\* generate returned over three lists whose primitives completed in another
\* order than that of the lists and produced different generations
C18_Witness ==
    /\ g_pc = "returned"
    /\ g_outOfOrder
    /\ Len(g_messages) = 3
    /\ g_prim[1].value # g_prim[3].value
    /\ g_messages[1] # g_messages[2]


\* ---------------------------------------------------------------- C19
\* C19: when generate has settled (it returned its result or it failed), the
\* end or error notification of every one of its message lists has
\* completed: none of them is still running.
C19_NotificationsCompleteBeforeSettle ==
    g_pc \in {"returned", "failed"} =>
        /\ Len(g_notified) = Len(g_messages)
        /\ \A i \in 1..Len(g_messages) : g_notified[i] \notin cb_pending


\* ---------------------------------------------------------------- C17
\* ((c1 + c2) + ...) + cn, for n >= 1
RECURSIVE LeftCombination(_)
LeftCombination(chunks) ==
    IF Len(chunks) = 1 THEN chunks[1]
    ELSE Concat(LeftCombination(SubSeq(chunks, 1, Len(chunks) - 1)),
                chunks[Len(chunks)])

\* The texts of the chunks, one after the other
RECURSIVE TextsInOrder(_)
TextsInOrder(chunks) ==
    IF chunks = <<>> THEN <<>>
    ELSE chunks[1].text \o TextsInOrder(Tail(chunks))

\* C17: when an overridden chunk producer has completed normally after
\* emitting n >= 1 chunks, all of them consumed, exactly one end
\* notification has been issued (and no error notification), it was issued
\* after the last chunk was yielded, and it carries one generation, the
\* left-to-right combination of the chunks, whose text is the texts of all
\* chunks in order.
C17_EndCarriesCombinationOfAllChunks ==
    (s_override /\ s_pc \in {"end", "done"} /\ Len(s_produced) >= 1) =>
        /\ Cardinality(NotificationsOfKind("end")) = 1
        /\ NotificationsOfKind("error") = {}
        /\ Len(s_delivered) = Len(s_produced)
        /\ \A e \in NotificationsOfKind("end") :
              /\ cb_events[e].run = s_runManagers[1]
              /\ cb_events[e].generations =
                    <<<<LeftCombination(s_produced)>>>>
              /\ cb_events[e].generations[1][1].text =
                    TextsInOrder(s_produced)
        /\ Cardinality(Positions("end", 0)) = 1
        /\ \A p \in Positions("end", 0),
              y \in Positions("yield", Len(s_produced)) : y < p

\* Three chunks, not all alike, were consumed and the end notification has
\* completed
C17_Witness ==
    /\ s_override
    /\ s_pc = "done"
    /\ Len(s_produced) = 3
    /\ s_produced[2] # s_produced[3]

\* ---------------------------------------------------------------- C20
\* C20: every end notification issued by the streaming path with an
\* overridden chunk producer carries a generation that is defined (combined
\* from at least one chunk), also when the producer completed without
\* emitting a chunk.
C20_EndNeverCarriesUndefinedGeneration ==
    s_override =>
        \A e \in NotificationsOfKind("end") :
            /\ Len(s_produced) >= 1
            /\ cb_events[e].generations[1][1].defined

====
